---------------------------- MODULE Spec2Model ----------------------------
(***************************************************************************)
(* Model of payment/index.js: the Express checkout-session handler that    *)
(* either signs an eSewa redirect payload or calls Khalti's initiation     *)
(* endpoint and relays the hosted payment URL.                             *)
(*                                                                         *)
(* Conventions.                                                            *)
(*   - A JavaScript string is a TLA+ string.                               *)
(*   - A JavaScript value is a record [t, s, d, p]: t is the type tag and  *)
(*     s the text of a string or of a boolean.  A number is a double,      *)
(*     named by the decimal Number::toString prints for it: s is its sign  *)
(*     ("" or "-"), d its significant digits (no leading or trailing       *)
(*     zero, "" for zero) and p the place of the decimal point, the value  *)
(*     being 0.d * 10^p.  NaN and the infinities have s = "NaN",           *)
(*     "Infinity", "-Infinity".  An object or an array is named by its     *)
(*     JSON text d and by s, the text String() gives it; p = 1 marks one   *)
(*     whose conversion to a primitive throws.                             *)
(*   - A conversion that can throw gives a completion: the JS value it     *)
(*     returns, or Thrown(message) for the TypeError it throws.            *)
(*   - Strings hold ASCII characters only; the vertical tab and the other  *)
(*     control characters that have no escape are written raw (U+0000 is   *)
(*     left out).                                                          *)
(*   - IEEE-754 double arithmetic (string to number, number to string, *,  *)
(*     Math.round) is computed exactly, on naturals held as little-endian  *)
(*     sequences of 15-bit limbs.                                          *)
(*   - HMAC-SHA256/base64 is an ideal keyed hash: a term over its key and  *)
(*     message, equal only for equal key and message.                      *)
(***************************************************************************)
EXTENDS Integers, Sequences, FiniteSets

VARIABLES
    env,        \* process.env: variable name -> JS value (undefined or string)
    phase,      \* per request: "idle" (not received), "awaiting" (suspended
                \* at `await axios.post`), "done" (handler returned)
    body,       \* per request: <<>> or <<req.body>>
    responses,  \* per request: the responses written to res, in order
    awaiting,   \* per request: index in calls of the awaited call, 0 if none
    calls       \* the outbound axios.post calls, in the order issued

vars == <<env, phase, body, responses, awaiting, calls>>

---------------------------------------------------------------------------
(* Characters and digits.  A character is a string of length one. *)

Digits == {"0", "1", "2", "3", "4", "5", "6", "7", "8", "9"}

DigitVal(c) == CHOOSE k \in 0..9 : c = SubSeq("0123456789", k + 1, k + 1)

DigitChar(k) == SubSeq("0123456789", k + 1, k + 1)

RECURSIVE IntToString(_)
IntToString(k) ==
    IF k < 10 THEN DigitChar(k)
    ELSE IntToString(k \div 10) \o DigitChar(k % 10)

RECURSIVE Pow10(_)
Pow10(k) == IF k = 0 THEN 1 ELSE 10 * Pow10(k - 1)

\* k zeros, k <= 21 (Number::toString pads with no more)
Zeros(k) == SubSeq("000000000000000000000", 1, k)

\* Length of the longest prefix, and of the longest suffix, of x made of the
\* given characters.
LeadingRun(x, chars) ==
    CHOOSE n \in 0..Len(x) :
        /\ n = Len(x) \/ SubSeq(x, n + 1, n + 1) \notin chars
        /\ \A i \in 1..n : SubSeq(x, i, i) \in chars

TrailingRun(x, chars) ==
    CHOOSE n \in 0..Len(x) :
        /\ n = Len(x) \/ SubSeq(x, Len(x) - n, Len(x) - n) \notin chars
        /\ \A i \in (Len(x) - n + 1)..Len(x) : SubSeq(x, i, i) \in chars

StripLeadingZeros(ds) == SubSeq(ds, LeadingRun(ds, {"0"}) + 1, Len(ds))

StripTrailingZeros(ds) == SubSeq(ds, 1, Len(ds) - TrailingRun(ds, {"0"}))

\* Length of the longest prefix of x made of digits.
DigitRun(x) == LeadingRun(x, Digits)

RECURSIVE DigitsValue(_)
DigitsValue(x) ==
    IF x = "" THEN 0
    ELSE 10 * DigitsValue(SubSeq(x, 1, Len(x) - 1)) + DigitVal(SubSeq(x, Len(x), Len(x)))

\* Digits of 0x, 0o and 0b literals (and of decimal ones)
RadixDigit(c, base) ==
    {k \in 0..(base - 1) : c = SubSeq("0123456789abcdef", k + 1, k + 1)
                           \/ c = SubSeq("0123456789ABCDEF", k + 1, k + 1)}

IsRadixDigits(x, base) == \A i \in 1..Len(x) : RadixDigit(SubSeq(x, i, i), base) # {}

---------------------------------------------------------------------------
(* JavaScript values *)

Undefined == [t |-> "undefined", s |-> "", d |-> "", p |-> 0]
Null == [t |-> "null", s |-> "", d |-> "", p |-> 0]
Bool(b) == [t |-> "boolean", s |-> IF b THEN "true" ELSE "false", d |-> "", p |-> 0]
Str(x) == [t |-> "string", s |-> x, d |-> "", p |-> 0]
NaN == [t |-> "number", s |-> "NaN", d |-> "", p |-> 0]
Infinity(neg) ==
    [t |-> "number", s |-> IF neg THEN "-Infinity" ELSE "Infinity", d |-> "", p |-> 0]
Zero(neg) == [t |-> "number", s |-> IF neg THEN "-" ELSE "", d |-> "", p |-> 0]

\* An object or an array: its JSON text, and the text its toString() gives
\* ("[object Object]" for an object, the joined elements for an array).
Obj(json, text) == [t |-> "object", s |-> text, d |-> json, p |-> 0]

\* An object with an own property "toString", which JSON cannot make
\* callable, or an array holding one: String(), Number() and `${}` throw.
Unconvertible(json) == [t |-> "object", s |-> "", d |-> json, p |-> 1]

\* An abrupt completion: the TypeError thrown, with its message.
Thrown(message) == [t |-> "throw", s |-> message, d |-> "", p |-> 0]

IsThrown(c) == DOMAIN c = {"t", "s", "d", "p"} /\ c.t = "throw"

\* The number (+/-) 0.digits * 10^point, with the digits normalised.
Finite(neg, digits, point) ==
    LET lead == StripLeadingZeros(digits)
        sig == StripTrailingZeros(lead)
    IN  IF sig = "" THEN Zero(neg)
        ELSE [t |-> "number", s |-> IF neg THEN "-" ELSE "", d |-> sig,
              p |-> point - (Len(digits) - Len(lead))]

\* The number n / 10^e, for an integer n of at most nine digits.
Num(n, e) ==
    LET ds == IntToString(IF n < 0 THEN 0 - n ELSE n)
    IN  Finite(n < 0, ds, Len(ds) - e)

IsNaN(v) == v.t = "number" /\ v.s = "NaN"

IsFinite(v) == v.t = "number" /\ v.s \in {"", "-"}

IsZero(v) == IsFinite(v) /\ v.d = ""

\* ToBoolean: what `!x` and `a || b` test.
ToBoolean(v) ==
    CASE v.t = "undefined" -> FALSE
      [] v.t = "null" -> FALSE
      [] v.t = "boolean" -> v.s = "true"
      [] v.t = "number" -> ~IsNaN(v) /\ ~IsZero(v)
      [] v.t = "string" -> v.s # ""
      [] v.t = "object" -> TRUE

---------------------------------------------------------------------------
(* Naturals of any size: little-endian sequences of limbs, no leading zero
   limb; <<>> is 0.  Long sequences are worked on by halves. *)

Limb == 2^15

BigNorm(a) ==
    IF \A i \in 1..Len(a) : a[i] = 0 THEN <<>>
    ELSE SubSeq(a, 1, CHOOSE i \in 1..Len(a) :
                          a[i] # 0 /\ \A j \in (i + 1)..Len(a) : a[j] = 0)

RECURSIVE BigFromInt(_)
BigFromInt(k) == IF k = 0 THEN <<>> ELSE <<k % Limb>> \o BigFromInt(k \div Limb)

\* The limbs of a * m + carry that stand where those of a do, and the carry
\* out of them: [s, c]
RECURSIVE MulLimbs(_, _, _)
MulLimbs(a, m, carry) ==
    IF Len(a) = 0 THEN [s |-> <<>>, c |-> carry]
    ELSE IF Len(a) = 1
    THEN [s |-> <<(a[1] * m + carry) % Limb>>, c |-> (a[1] * m + carry) \div Limb]
    ELSE LET lo == MulLimbs(SubSeq(a, 1, Len(a) \div 2), m, carry)
             hi == MulLimbs(SubSeq(a, (Len(a) \div 2) + 1, Len(a)), m, lo.c)
         IN  [s |-> lo.s \o hi.s, c |-> hi.c]

MulJoin(r) == BigNorm(r.s \o BigFromInt(r.c))

\* a * m + carry, for a small m
BigMulSmall(a, m, carry) == MulJoin(MulLimbs(a, m, carry))

BigInc(a) == BigMulSmall(a, 1, 1)

\* Long division of r * Limb^Len(a) + a by a small k, from the high limbs
\* down: the limbs of the quotient, highest first, and the remainder: [q, r]
RECURSIVE DivLimbs(_, _, _)
DivLimbs(a, k, r) ==
    IF Len(a) = 0 THEN [q |-> <<>>, r |-> r]
    ELSE IF Len(a) = 1
    THEN [q |-> <<(r * Limb + a[1]) \div k>>, r |-> (r * Limb + a[1]) % k]
    ELSE LET hi == DivLimbs(SubSeq(a, (Len(a) \div 2) + 1, Len(a)), k, r)
             lo == DivLimbs(SubSeq(a, 1, Len(a) \div 2), k, hi.r)
         IN  [q |-> hi.q \o lo.q, r |-> lo.r]

DivJoin(d) == [q |-> BigNorm([i \in 1..Len(d.q) |-> d.q[Len(d.q) + 1 - i]]), r |-> d.r]

\* a divided by a small k: [q, r] with a = q * k + r
BigDivRem(a, k) == DivJoin(DivLimbs(a, k, 0))

BigIsOdd(a) == a # <<>> /\ a[1] % 2 = 1

\* Number of bits of a small natural, and of a natural of any size.
BitLength(k) == CHOOSE b \in 0..31 : k < 2^b /\ (b = 0 \/ k >= 2^(b - 1))

BigBitLength(a) ==
    IF a = <<>> THEN 0 ELSE 15 * (Len(a) - 1) + BitLength(a[Len(a)])

\* a * 2^k
BigShiftLeft(a, k) ==
    IF a = <<>> THEN a
    ELSE BigMulSmall([i \in 1..(k \div 15) |-> 0] \o a, 2^(k % 15), 0)

\* floor(a / 2^j)
BigShiftRight(a, j) ==
    IF j \div 15 >= Len(a) THEN <<>>
    ELSE BigDivRem(SubSeq(a, (j \div 15) + 1, Len(a)), 2^(j % 15)).q

\* The j low bits of a are all zero.
BigLowBitsZero(a, j) ==
    /\ \A i \in 1..(j \div 15) : i > Len(a) \/ a[i] = 0
    /\ j % 15 = 0 \/ j \div 15 >= Len(a) \/ a[(j \div 15) + 1] % 2^(j % 15) = 0

\* Number of low zero bits of a > 0.
LimbTrailingZeros(k) == CHOOSE c \in 0..14 : k % 2^(c + 1) # 0 /\ k % 2^c = 0

BigTrailingZeros(a) ==
    LET i == CHOOSE c \in 1..Len(a) : a[c] # 0 /\ \A j \in 1..(c - 1) : a[j] = 0
    IN  15 * (i - 1) + LimbTrailingZeros(a[i])

\* a * 10^k
RECURSIVE BigMulPow10(_, _)
BigMulPow10(a, k) ==
    IF a = <<>> THEN a
    ELSE IF k <= 4 THEN BigMulSmall(a, Pow10(k), 0)
    ELSE BigMulPow10(BigMulPow10(a, k \div 2), k - (k \div 2))

\* floor(a / 10^k): [q, sticky], sticky telling that the division was
\* inexact.
Quotient(qr) == [q |-> qr.q, sticky |-> qr.r # 0]

RECURSIVE BigDivPow10(_, _)
BigDivPow10(a, k) ==
    IF a = <<>> THEN [q |-> a, sticky |-> FALSE]
    ELSE IF k <= 4 THEN Quotient(BigDivRem(a, Pow10(k)))
    ELSE LET first == BigDivPow10(a, k \div 2)
             second == BigDivPow10(first.q, k - (k \div 2))
         IN  [q |-> second.q, sticky |-> first.sticky \/ second.sticky]

\* acc * base^Len(ds) + the natural the digits ds write in that base.  acc
\* is looked at first, so that it is worked out before the digits after it
\* are taken up.
RECURSIVE BigFoldDigits(_, _, _)
BigFoldDigits(acc, ds, base) ==
    IF acc = <<>> /\ Len(ds) = 0 THEN <<>>
    ELSE IF Len(ds) = 0 THEN acc
    ELSE IF Len(ds) = 1
    THEN BigMulSmall(acc, base, CHOOSE k \in RadixDigit(ds, base) : TRUE)
    ELSE BigFoldDigits(BigFoldDigits(acc, SubSeq(ds, 1, Len(ds) \div 2), base),
                       SubSeq(ds, (Len(ds) \div 2) + 1, Len(ds)), base)

\* Decimal digits <-> natural ("" is 0)
BigFromDigits(ds) == BigFoldDigits(<<>>, ds, 10)

FourDigits(k) == SubSeq("000", 1, 4 - Len(IntToString(k))) \o IntToString(k)

RECURSIVE BigToDigits(_)
BigToDigitsStep(qr) ==
    IF qr.q = <<>> THEN IntToString(qr.r) ELSE BigToDigits(qr.q) \o FourDigits(qr.r)

BigToDigits(a) == IF a = <<>> THEN "" ELSE BigToDigitsStep(BigDivRem(a, 10000))

\* (a + f) / 2^sh rounded to the nearest natural, ties to the even one;
\* sh >= 1, and f is a fraction in [0, 1) that is nonzero iff sticky.
RoundUp(q, half, lower) == IF half /\ (lower \/ BigIsOdd(q)) THEN BigInc(q) ELSE q

RoundTop(top, lower) == RoundUp(BigShiftRight(top, 1), BigIsOdd(top), lower)

RoundShift(a, sh, sticky) ==
    RoundTop(BigShiftRight(a, sh - 1), sticky \/ ~BigLowBitsZero(a, sh - 1))

---------------------------------------------------------------------------
(* IEEE-754 binary64 magnitudes: [m, x, inf] is m * 2^x with m odd and below
   2^53 (m = <<>> is zero), or infinity when inf.  The sign is kept beside
   the magnitude. *)

MantissaBits == 53
MinExponent == 0 - 1074
MaxBits == 1024

Normalised(m, x, tz) == [m |-> BigShiftRight(m, tz), x |-> x + tz, inf |-> FALSE]

MakeDouble(m, x) ==
    IF m = <<>> THEN [m |-> <<>>, x |-> 0, inf |-> FALSE]
    ELSE IF BigBitLength(m) + x > MaxBits THEN [m |-> <<>>, x |-> 0, inf |-> TRUE]
    ELSE Normalised(m, x, BigTrailingZeros(m))

\* The bits to drop from a natural of bl bits scaled by 2^x0: those beyond
\* MantissaBits, and below the normal range those under 2^MinExponent.
RoundingShift(bl, x0) ==
    LET sh0 == IF bl > MantissaBits THEN bl - MantissaBits ELSE 0
    IN  IF x0 + sh0 < MinExponent THEN MinExponent - x0 ELSE sh0

RoundAt(a, sticky, x0, sh) ==
    MakeDouble(IF sh = 0 THEN a ELSE RoundShift(a, sh, sticky), x0 + sh)

\* The double nearest to (a + f) * 2^x0, ties to even, f a fraction in
\* [0, 1) that is nonzero iff sticky (a then has more than MantissaBits
\* bits).
RoundBig(a, sticky, x0) == RoundAt(a, sticky, x0, RoundingShift(BigBitLength(a), x0))

\* The left shift that gives a natural of bl bits, divided by 10^k, a
\* quotient of more than MantissaBits + 1 bits.
QuotientShift(bl, k) ==
    LET want == (MantissaBits + 3) + (((k * 33220) \div 10000) + 1) - bl
    IN  IF want > 0 THEN want ELSE 0

Scaled(quo, x) == [q |-> quo.q, sticky |-> quo.sticky, x |-> x]

\* a * 10^q as (n + f) * 2^x: [q |-> n, sticky |-> f # 0, x]
ScaledDecimal(a, q) ==
    IF q >= 0 THEN [q |-> BigMulPow10(a, q), sticky |-> FALSE, x |-> 0]
    ELSE Scaled(BigDivPow10(BigShiftLeft(a, QuotientShift(BigBitLength(a), 0 - q)), 0 - q),
                0 - QuotientShift(BigBitLength(a), 0 - q))

RoundScaled(r) == RoundBig(r.q, r.sticky, r.x)

\* The double nearest to a * 10^q, a > 0.
DecimalToDouble(a, q) == RoundScaled(ScaledDecimal(a, q))

\* floor(a / b) for integers, b > 0
FloorDiv(a, b) == IF a >= 0 THEN a \div b ELSE 0 - (((0 - a) + (b - 1)) \div b)

\* The power of ten that scales a value of the given number of bits to 19 or
\* 20 integer digits.
DecimalShift(bits) == 19 - (FloorDiv((bits - 1) * 30103, 100000) + 1)

ShiftDown(a, sh, sticky) ==
    [q |-> BigShiftRight(a, sh), sticky |-> sticky \/ ~BigLowBitsZero(a, sh)]

ShiftDownPart(part, sh) == ShiftDown(part.q, sh, part.sticky)

\* floor(m * 2^x * 10^j), and whether it was inexact: [q, sticky]
ScaledDouble(m, x, j) ==
    IF x >= 0
    THEN IF j >= 0
         THEN [q |-> BigMulPow10(BigShiftLeft(m, x), j), sticky |-> FALSE]
         ELSE BigDivPow10(BigShiftLeft(m, x), 0 - j)
    ELSE IF j >= 0
         THEN ShiftDown(BigMulPow10(m, j), 0 - x, FALSE)
         ELSE ShiftDownPart(BigDivPow10(m, 0 - j), 0 - x)

\* Where the digits dropped after a cut stand against one half.
Remainder(rest, sticky) ==
    IF DigitVal(Head(rest)) > 5 THEN "above"
    ELSE IF DigitVal(Head(rest)) < 5 THEN "below"
    ELSE IF sticky \/ StripTrailingZeros(Tail(rest)) # "" THEN "above"
    ELSE "tie"

PrintedDigits(ds, q) == [d |-> StripTrailingZeros(ds), p |-> Len(ds) + q]

\* Of the two k-digit decimals next to the scaled value wd (lo below, lo + 1
\* above), those that convert back to the double self.
GoodOf(self, nn, k, lo) == {c \in {lo, BigInc(lo)} : DecimalToDouble(c, nn - k) = self}

Good(self, wd, nn, k) == GoodOf(self, nn, k, BigFromDigits(SubSeq(wd, 1, k)))

\* The fewest digits that convert back: one more digit never loses the
\* property, so the least k is the one that has it while k - 1 has not.
\* Seventeen digits always do.
ShortestLength(self, wd, nn) ==
    CHOOSE k \in 1..17 :
        Good(self, wd, nn, k) # {} /\ (k = 1 \/ Good(self, wd, nn, k - 1) = {})

\* When both neighbours convert back, the closer one is taken, the even one
\* on a tie.
ShortestPick(lo, good, side, q) ==
    PrintedDigits(
        BigToDigits(IF BigInc(lo) \in good
                       /\ (lo \notin good \/ side = "above"
                           \/ (side = "tie" /\ BigIsOdd(lo)))
                    THEN BigInc(lo) ELSE lo),
        q)

ShortestCut(self, wd, nn, sticky, k) ==
    ShortestPick(BigFromDigits(SubSeq(wd, 1, k)), Good(self, wd, nn, k),
                 Remainder(SubSeq(wd, k + 1, Len(wd)), sticky), nn - k)

ShortestDigits(self, wd, sticky, j) ==
    ShortestCut(self, wd, Len(wd) - j, sticky, ShortestLength(self, wd, Len(wd) - j))

ShortestOf(self, w, j) == ShortestDigits(self, BigToDigits(w.q), w.sticky, j)

\* The decimal digits Number::toString prints for the double m * 2^x, m > 0:
\* [d, p] with d the fewest digits such that 0.d * 10^p converts back to the
\* same double, the closest to the double when several do, the even one on a
\* tie.
DoubleToDecimal(m, x) ==
    ShortestOf(MakeDouble(m, x),
               ScaledDouble(m, x, DecimalShift(BigBitLength(m) + x)),
               DecimalShift(BigBitLength(m) + x))

\* The JS number of a double, and the double of a finite nonzero JS number.
NumberOf(neg, dec) ==
    [t |-> "number", s |-> IF neg THEN "-" ELSE "", d |-> dec.d, p |-> dec.p]

FromDouble(neg, a) ==
    IF a.inf THEN Infinity(neg)
    ELSE IF a.m = <<>> THEN Zero(neg)
    ELSE NumberOf(neg, DoubleToDecimal(a.m, a.x))

\* The magnitude a * k in double arithmetic, k a small positive integer.
DoubleTimes(a, k) == RoundBig(BigMulSmall(a.m, k, 0), FALSE, a.x)

\* Math.round of the double (+/-) a: the nearest integer, ties toward
\* +Infinity; the result keeps the sign, so that a negative value above
\* -0.5 gives -0.
MathRoundTop(neg, top, lower) ==
    MakeDouble(IF BigIsOdd(top) /\ (lower \/ ~neg)
               THEN BigInc(BigShiftRight(top, 1)) ELSE BigShiftRight(top, 1), 0)

MathRound(neg, a) ==
    IF a.x >= 0 THEN a
    ELSE MathRoundTop(neg, BigShiftRight(a.m, (0 - a.x) - 1),
                      ~BigLowBitsZero(a.m, (0 - a.x) - 1))

---------------------------------------------------------------------------
(* Numbers and text *)

\* Number::toString (radix 10)
NumberToString(v) ==
    IF IsNaN(v) THEN "NaN"
    ELSE IF ~IsFinite(v) THEN v.s
    ELSE IF v.d = "" THEN "0"
    ELSE LET k == Len(v.d)
             n == v.p
             e == IF n >= 1 THEN n - 1 ELSE 1 - n
             text ==
                 IF k <= n /\ n <= 21 THEN v.d \o Zeros(n - k)
                 ELSE IF 0 < n /\ n <= 21
                      THEN SubSeq(v.d, 1, n) \o "." \o SubSeq(v.d, n + 1, k)
                 ELSE IF 0 - 6 < n /\ n <= 0 THEN "0." \o Zeros(0 - n) \o v.d
                 ELSE (IF k = 1 THEN v.d
                       ELSE SubSeq(v.d, 1, 1) \o "." \o SubSeq(v.d, 2, k))
                      \o "e" \o (IF n >= 1 THEN "+" ELSE "-") \o IntToString(e)
         IN  v.s \o text

\* ToPrimitive of an object: toString is tried, then valueOf, which gives
\* back the object; with no callable toString a TypeError is thrown.  The
\* same holds with valueOf tried first, as Number() does.
ToPrimitive(v) ==
    IF v.t # "object" THEN v
    ELSE IF v.p = 1 THEN Thrown("Cannot convert object to primitive value")
    ELSE Str(v.s)

\* ToString, as a template literal `${x}` and parseFloat apply it: the
\* string, or the TypeError thrown.
ToString(v) ==
    CASE v.t = "undefined" -> Str("undefined")
      [] v.t = "null" -> Str("null")
      [] v.t = "boolean" -> Str(v.s)
      [] v.t = "number" -> Str(NumberToString(v))
      [] v.t = "string" -> v
      [] v.t = "object" -> ToPrimitive(v)

\* StrWhiteSpaceChar: white space and line terminators.  Of them ASCII has
\* the space, the tab, the line feed, the carriage return, the form feed and
\* the vertical tab (U+000B, written raw).
WhiteSpace == {" ", "\t", "\n", "\r", "\f", ""}

TrimStart(x) == SubSeq(x, LeadingRun(x, WhiteSpace) + 1, Len(x))

TrimEnd(x) == SubSeq(x, 1, Len(x) - TrailingRun(x, WhiteSpace))

StartsWith(x, prefix) == Len(x) >= Len(prefix) /\ SubSeq(x, 1, Len(prefix)) = prefix

\* The number an exponent writes.  One of ten digits or more stands for
\* 10^9: no mantissa offsets it, a string being shorter than 2^30
\* characters, so the literal is infinite or zero either way.
ExponentValue(ds) ==
    LET sig == StripLeadingZeros(ds)
    IN  IF Len(sig) > 9 THEN 1000000000 ELSE DigitsValue(sig)

\* The JS number nearest to (+/-) sig * 10^q, sig without leading zeros.
DecimalNumber(neg, sig, q) ==
    IF sig = "" THEN Zero(neg)
    ELSE IF Len(sig) + q > 309 THEN Infinity(neg)
    ELSE IF Len(sig) + q < 0 - 323 THEN Zero(neg)
    ELSE FromDouble(neg, DecimalToDouble(BigFromDigits(sig), q))

\* Trailing zeros of the digits go to the power of ten.
Significant(neg, lead, sig, q) == DecimalNumber(neg, sig, q + (Len(lead) - Len(sig)))

DecimalValue(neg, digits, q) ==
    Significant(neg, StripLeadingZeros(digits),
                StripTrailingZeros(StripLeadingZeros(digits)), q)

\* An exponent part at the start of x ("e" or "E", an optional sign, at
\* least one digit): [len, value], len = 0 when there is none.
ExponentRun(x, g, skip, neg) ==
    IF g = 0 THEN [len |-> 0, value |-> 0]
    ELSE [len |-> skip + g,
          value |-> (IF neg THEN 0 - 1 ELSE 1) * ExponentValue(SubSeq(x, 1, g))]

ExponentDigits(x, skip, neg) == ExponentRun(x, DigitRun(x), skip, neg)

ExponentSign(x) ==
    IF x # "" /\ Head(x) \in {"+", "-"} THEN ExponentDigits(Tail(x), 2, Head(x) = "-")
    ELSE ExponentDigits(x, 1, FALSE)

ExponentPart(x) ==
    IF x # "" /\ Head(x) \in {"e", "E"} THEN ExponentSign(Tail(x))
    ELSE [len |-> 0, value |-> 0]

Literal(digits, f, mlen, ex) ==
    [len |-> mlen + ex.len, digits |-> digits, q |-> ex.value - f]

\* x starts with i digits and, when f >= 0, a dot and f digits (f < 0: no
\* dot).  At least one digit is needed.
Mantissa(x, i, f) ==
    IF i = 0 /\ f <= 0 THEN [len |-> 0, digits |-> "", q |-> 0]
    ELSE IF f < 0 THEN Literal(SubSeq(x, 1, i), 0, i, ExponentPart(SubSeq(x, i + 1, Len(x))))
    ELSE Literal(SubSeq(x, 1, i) \o SubSeq(x, i + 2, i + 1 + f), f, i + 1 + f,
                 ExponentPart(SubSeq(x, i + 2 + f, Len(x))))

Fraction(x, i) ==
    Mantissa(x, i, IF i < Len(x) /\ SubSeq(x, i + 1, i + 1) = "."
                   THEN DigitRun(SubSeq(x, i + 2, Len(x))) ELSE 0 - 1)

\* The longest prefix of x that is an unsigned decimal literal: digits with
\* an optional fraction, or a dot and digits, then an optional exponent:
\* [len, digits, q], the literal being digits * 10^q; len = 0 when x starts
\* with no literal.
DecimalPrefix(x) == Fraction(x, DigitRun(x))

SignedLiteral(lit, sl, neg) ==
    IF lit.len = 0 THEN [len |-> 0, value |-> NaN]
    ELSE [len |-> sl + lit.len, value |-> DecimalValue(neg, lit.digits, lit.q)]

Signed(unsigned, sl, neg) ==
    IF StartsWith(unsigned, "Infinity") THEN [len |-> sl + 8, value |-> Infinity(neg)]
    ELSE SignedLiteral(DecimalPrefix(unsigned), sl, neg)

HasSign(x) == x # "" /\ Head(x) \in {"+", "-"}

\* The longest prefix of x that is a signed literal or Infinity:
\* [len, value].
SignedPrefix(x) ==
    Signed(IF HasSign(x) THEN Tail(x) ELSE x, IF HasSign(x) THEN 1 ELSE 0,
           HasSign(x) /\ Head(x) = "-")

RadixOf(x) ==
    IF StartsWith(x, "0x") \/ StartsWith(x, "0X") THEN 16
    ELSE IF StartsWith(x, "0o") \/ StartsWith(x, "0O") THEN 8
    ELSE IF StartsWith(x, "0b") \/ StartsWith(x, "0B") THEN 2
    ELSE 10

RadixNumber(digits, base) ==
    IF digits # "" /\ IsRadixDigits(digits, base)
    THEN FromDouble(FALSE, RoundBig(BigFoldDigits(<<>>, digits, base), FALSE, 0))
    ELSE NaN

WholeLiteral(lit, len) == IF lit.len = len THEN lit.value ELSE NaN

TrimmedToNumber(text) ==
    IF text = "" THEN Zero(FALSE)
    ELSE IF RadixOf(text) # 10 THEN RadixNumber(SubSeq(text, 3, Len(text)), RadixOf(text))
    ELSE WholeLiteral(SignedPrefix(text), Len(text))

\* StringToNumber (Number("...")): white space is trimmed on both sides;
\* what remains is empty (0), a 0x/0o/0b literal, or a signed decimal
\* literal or Infinity that takes the whole string; anything else is NaN.
StringToNumber(x) == TrimmedToNumber(TrimEnd(TrimStart(x)))

PrimitiveToNumber(prim) == IF IsThrown(prim) THEN prim ELSE StringToNumber(prim.s)

\* Number(x): the number, or the TypeError thrown.
ToNumber(v) ==
    CASE v.t = "undefined" -> NaN
      [] v.t = "null" -> Zero(FALSE)
      [] v.t = "boolean" -> (IF v.s = "true" THEN Num(1, 0) ELSE Zero(FALSE))
      [] v.t = "number" -> v
      [] v.t = "string" -> StringToNumber(v.s)
      [] v.t = "object" -> PrimitiveToNumber(ToPrimitive(v))

ParsedPrefix(str) == IF IsThrown(str) THEN str ELSE SignedPrefix(TrimStart(str.s)).value

\* parseFloat(x): ToString, which may throw, leading white space dropped,
\* then the longest literal prefix.
parseFloat(v) == ParsedPrefix(ToString(v))

RoundedProduct(neg, prod) ==
    IF prod.inf THEN Infinity(neg) ELSE FromDouble(neg, MathRound(neg, prod))

TimesHundredRounded(parsed) ==
    IF IsThrown(parsed) THEN parsed
    ELSE IF ~IsFinite(parsed) \/ IsZero(parsed) THEN parsed
    ELSE RoundedProduct(parsed.s = "-",
                        DoubleTimes(DecimalToDouble(BigFromDigits(parsed.d),
                                                    parsed.p - Len(parsed.d)), 100))

\* Math.round(parseFloat(amount) * 100), line 110: the number, or the
\* TypeError parseFloat throws.
MinorUnits(amount) == TimesHundredRounded(parseFloat(amount))

---------------------------------------------------------------------------
(* Configuration *)

requiredEnvVars ==
    <<"BASE_URL", "ESEWA_MERCHANT_CODE", "ESEWA_SECRET_KEY", "KHALTI_SECRET_KEY">>

\* As if KHALTI_SECRET_KEY had not been added to the list.
validateEsewaVariablesOnly(e) ==
    LET missing == {i \in 1..3 : ~ToBoolean(e[requiredEnvVars[i]])}
    IN  IF missing = {} THEN <<>>
        ELSE LET first == CHOOSE i \in missing : \A j \in missing : i <= j
             IN  <<"Missing environment variable: " \o requiredEnvVars[first]>>

\* validateEnvironmentVariables(): <<>> when it returns, <<message>> of the
\* Error it throws for the first variable, in order, that is absent or empty.
validateEnvironmentVariables(e) ==
    LET missing == {i \in DOMAIN requiredEnvVars : ~ToBoolean(e[requiredEnvVars[i]])}
    IN  IF missing = {} THEN <<>>
        ELSE LET first == CHOOSE i \in missing : \A j \in missing : i <= j
             IN  <<"Missing environment variable: " \o requiredEnvVars[first]>>

\* crypto.createHmac('sha256', secretKey).update(message).digest('base64')
generateEsewaSignature(secretKey, message) ==
    [hmac |-> "sha256", key |-> secretKey, message |-> message, digest |-> "base64"]

---------------------------------------------------------------------------
(* Responses.  Every response has the same fields; a field the handler did
   not put in the body is <<>>, one it put there is <<value>>. *)

NoBody ==
    [error |-> <<>>, details |-> <<>>, amount |-> <<>>, esewaConfig |-> <<>>,
     khaltiPaymentUrl |-> <<>>]

\* res.status(400).json({ error })
BadRequest(error) == [status |-> 400, json |-> [NoBody EXCEPT !.error = <<error>>]]

\* the outer catch: res.status(500).json({ error, details: err.message });
\* everything thrown in the handler is an Error, so details is its message
ErrorBoundary(message) ==
    [status |-> 500,
     json |-> [NoBody EXCEPT !.error = <<"Error creating payment session">>,
                             !.details = <<message>>]]

\* res.json(...) of the eSewa branch; the status stays Express's default 200
EsewaOk(amount, config) ==
    [status |-> 200, json |-> [NoBody EXCEPT !.amount = <<amount>>,
                                             !.esewaConfig = <<config>>]]

\* res.json({ khaltiPaymentUrl })
KhaltiOk(paymentUrl) ==
    [status |-> 200, json |-> [NoBody EXCEPT !.khaltiPaymentUrl = <<paymentUrl>>]]

---------------------------------------------------------------------------
(* The eSewa branch *)

\* `${Date.now()}-${uuidv4()}`
transactionUuid(now, uuid) == now \o "-" \o uuid

esewaConfig(amount, uuid, e) ==
    [amount |-> amount,
     tax_amount |-> Str("0"),
     total_amount |-> amount,
     transaction_uuid |-> Str(uuid),
     product_code |-> e["ESEWA_MERCHANT_CODE"],
     product_service_charge |-> Str("0"),
     product_delivery_charge |-> Str("0"),
     success_url |-> Str(ToString(e["BASE_URL"]).s \o "/success?method=esewa"),
     failure_url |-> ToString(e["BASE_URL"]),
     signed_field_names |-> Str("total_amount,transaction_uuid,product_code")]

\* Line 84: the text that is signed, or the TypeError `${total_amount}`
\* throws.
SignatureText(total, config) ==
    IF IsThrown(total) THEN total
    ELSE Str("total_amount=" \o total.s
             \o ",transaction_uuid=" \o ToString(config.transaction_uuid).s
             \o ",product_code=" \o ToString(config.product_code).s)

signatureString(config) == SignatureText(ToString(config.total_amount), config)

ResponseConfig(config, signature, total) ==
    IF IsThrown(total) THEN total
    ELSE [amount |-> config.amount,
          tax_amount |-> ToNumber(config.tax_amount),
          total_amount |-> total,
          transaction_uuid |-> config.transaction_uuid,
          product_code |-> config.product_code,
          product_service_charge |-> ToNumber(config.product_service_charge),
          product_delivery_charge |-> ToNumber(config.product_delivery_charge),
          success_url |-> config.success_url,
          failure_url |-> config.failure_url,
          signed_field_names |-> config.signed_field_names,
          signature |-> signature]

\* The esewaConfig of the response: the spread config, the signature, and the
\* four amounts coerced with Number(); or the TypeError Number() throws.
esewaResponseConfig(config, signature) ==
    ResponseConfig(config, signature, ToNumber(config.total_amount))

\* res.json(...), or the outer catch when building its argument threw.
esewaAnswer(amount, responseConfig) ==
    IF IsThrown(responseConfig) THEN ErrorBoundary(responseConfig.s)
    ELSE EsewaOk(amount, responseConfig)

\* Lines 84-102: a TypeError thrown by line 84 goes to the outer catch.
esewaSign(amount, config, e, text) ==
    IF IsThrown(text) THEN ErrorBoundary(text.s)
    ELSE esewaAnswer(amount,
             esewaResponseConfig(config,
                 generateEsewaSignature(ToString(e["ESEWA_SECRET_KEY"]).s, text.s)))

\* case "esewa", lines 67-103: the response.
esewaBranch(amount, uuid, e) ==
    esewaSign(amount, esewaConfig(amount, uuid, e), e,
              signatureString(esewaConfig(amount, uuid, e)))

---------------------------------------------------------------------------
(* The Khalti branch *)

\* Lines 107-118: the object literal, or the TypeError the amount throws
\* while it is built.
KhaltiConfigOf(b, e, amount) ==
    IF IsThrown(amount) THEN amount
    ELSE [return_url |-> Str(ToString(e["BASE_URL"]).s \o "/success?method=khalti"),
          website_url |-> e["BASE_URL"],
          amount |-> amount,
          purchase_order_id |-> b.transactionId,
          purchase_order_name |-> b.productName,
          customer_info |-> [name |-> "dai", email |-> "dai@gmail.com",
                             phone |-> "9800000000"]]

khaltiConfig(b, e) == KhaltiConfigOf(b, e, MinorUnits(b.amount))

KhaltiRequestOf(config, e) ==
    IF IsThrown(config) THEN config
    ELSE [url |-> "https://a.khalti.com/api/v2/epayment/initiate/",
          data |-> config,
          authorization |-> "Key " \o ToString(e["KHALTI_SECRET_KEY"]).s,
          contentType |-> "application/json"]

\* The arguments of axios.post, lines 121-130; none when khaltiConfig threw
\* (line 110 is outside the inner try).
khaltiRequest(b, e) == KhaltiRequestOf(khaltiConfig(b, e), e)

\* case "khalti" up to the await: the call issued, or the answer of the
\* outer catch and no call.
KhaltiIssue(request) ==
    IF IsThrown(request) THEN [response |-> <<ErrorBoundary(request.s)>>, call |-> <<>>]
    ELSE [response |-> <<>>, call |-> <<request>>]

khaltiBranch(b, e) == KhaltiIssue(khaltiRequest(b, e))

\* A reply is [status, data, message]: status 0 is no HTTP response at all
\* (a network error), data is the parsed body [t, s, payment_url] (t is
\* "object", "string", "null" or "none"; s the compact JSON text of an object
\* or the text of a string; payment_url the value of that property), and
\* message the message of the error axios rejects with.
Resolves(reply) == reply.status >= 200 /\ reply.status < 300

DataTruthy(data) ==
    CASE data.t = "object" -> TRUE
      [] data.t = "string" -> data.s # ""
      [] OTHER -> FALSE

\* The control characters U+0001 to U+001F, in order (U+0000 cannot be
\* written in a module).
ControlChars == "\t\n\f\r"

HexDigit(k) == SubSeq("0123456789abcdef", k + 1, k + 1)

ControlEscape(k) ==
    CASE k = 8 -> "\\b"
      [] k = 9 -> "\\t"
      [] k = 10 -> "\\n"
      [] k = 12 -> "\\f"
      [] k = 13 -> "\\r"
      [] OTHER -> "\\u00" \o HexDigit(k \div 16) \o HexDigit(k % 16)

\* QuoteJSONString: the quote and the backslash take a backslash, a control
\* character its short escape or \u00xx.
JsonEscapeChar(c) ==
    IF c = "\"" THEN "\\\""
    ELSE IF c = "\\" THEN "\\\\"
    ELSE IF \E k \in 1..31 : c = SubSeq(ControlChars, k, k)
    THEN ControlEscape(CHOOSE k \in 1..31 : c = SubSeq(ControlChars, k, k))
    ELSE c

RECURSIVE JsonEscape(_)
JsonEscape(x) ==
    IF Len(x) = 0 THEN ""
    ELSE IF Len(x) = 1 THEN JsonEscapeChar(x)
    ELSE JsonEscape(SubSeq(x, 1, Len(x) \div 2))
             \o JsonEscape(SubSeq(x, (Len(x) \div 2) + 1, Len(x)))

\* JSON.stringify of a string, and of a body
JsonString(x) == "\"" \o JsonEscape(x) \o "\""

JsonStringify(data) == IF data.t = "object" THEN data.s ELSE JsonString(data.s)

\* As if the catch reported error.message alone.
khaltiCatchMessageOnly(hasResponse, data, message) ==
    "Khalti payment initiation failed: " \o JsonString(message)

\* The inner catch, lines 136-141: the message of the Error it throws.
\* error.response?.data || error.message
khaltiCatch(hasResponse, data, message) ==
    "Khalti payment initiation failed: "
        \o (IF hasResponse /\ DataTruthy(data) THEN JsonStringify(data)
            ELSE JsonString(message))

\* The handler from the settled await to its response, lines 121-154.
khaltiContinuation(reply) ==
    IF Resolves(reply)
    THEN IF reply.data.t \in {"null", "none"}
         THEN \* response.data.payment_url throws a TypeError inside the try
              ErrorBoundary(khaltiCatch(FALSE, reply.data,
                  "Cannot read properties of " \o
                  (IF reply.data.t = "null" THEN "null" ELSE "undefined")
                  \o " (reading 'payment_url')"))
         ELSE KhaltiOk(reply.data.payment_url)
    ELSE ErrorBoundary(khaltiCatch(reply.status # 0, reply.data, reply.message))

---------------------------------------------------------------------------
(* The handler up to its first suspension: [response, call], each <<>> or a
   one-element sequence. *)

\* As if only absent fields were rejected (x === undefined).
MissingFieldsOnlyAbsent(b) ==
    b.amount = Undefined \/ b.productName = Undefined
        \/ b.transactionId = Undefined \/ b.method = Undefined

MissingFields(b) ==
    ~ToBoolean(b.amount) \/ ~ToBoolean(b.productName)
        \/ ~ToBoolean(b.transactionId) \/ ~ToBoolean(b.method)

\* As if the khalti branch answered before awaiting the gateway.
dispatchAnsweringEarly(b, uuid, e) ==
    CASE b.method = Str("esewa") ->
            [response |-> <<esewaBranch(b.amount, uuid, e)>>, call |-> <<>>]
      [] b.method = Str("khalti") ->
            [response |-> <<KhaltiOk(Undefined)>>, call |-> khaltiBranch(b, e).call]
      [] OTHER ->
            [response |-> <<BadRequest("Invalid payment method")>>, call |-> <<>>]

\* As if the method were matched without regard to case.
dispatchIgnoringCase(b, uuid, e) ==
    CASE b.method \in {Str("esewa"), Str("Esewa")} ->
            [response |-> <<esewaBranch(b.amount, uuid, e)>>, call |-> <<>>]
      [] b.method \in {Str("khalti"), Str("Khalti")} ->
            khaltiBranch(b, e)
      [] OTHER ->
            [response |-> <<BadRequest("Invalid payment method")>>, call |-> <<>>]

dispatch(b, uuid, e) ==
    CASE b.method = Str("esewa") ->
            [response |-> <<esewaBranch(b.amount, uuid, e)>>, call |-> <<>>]
      [] b.method = Str("khalti") ->
            khaltiBranch(b, e)
      [] OTHER ->
            [response |-> <<BadRequest("Invalid payment method")>>, call |-> <<>>]

\* b is req.body: the parsed body, or Undefined when express.json() left
\* none (a request without a JSON body, on the Express versions that do not
\* default it to {}); line 59 then throws a TypeError.
checkoutSession(b, uuid, e) ==
    LET thrown == validateEnvironmentVariables(e)
    IN  IF thrown # <<>>
        THEN [response |-> <<ErrorBoundary(thrown[1])>>, call |-> <<>>]
        ELSE IF b = Undefined
        THEN [response |-> <<ErrorBoundary(
                  "Cannot destructure property 'amount' of 'paymentData' as it is undefined.")>>,
              call |-> <<>>]
        ELSE IF MissingFields(b)
        THEN [response |-> <<BadRequest("Missing required fields")>>, call |-> <<>>]
        ELSE dispatch(b, uuid, e)

---------------------------------------------------------------------------
(* Inputs *)

NumReq == 2

Requests == 1..NumReq

ValidEnv ==
    [v \in {requiredEnvVars[i] : i \in DOMAIN requiredEnvVars} |->
        CASE v = "BASE_URL" -> Str("https://shop.example")
          [] v = "ESEWA_MERCHANT_CODE" -> Str("EPAYTEST")
          [] v = "ESEWA_SECRET_KEY" -> Str("8gBm/:&EnhH.1/q")
          [] v = "KHALTI_SECRET_KEY" -> Str("live_secret_key_68791341fdd94846a146f0457ff7b455")]

\* Every combination of each variable being absent, empty or set.
Envs ==
    {e \in [DOMAIN ValidEnv -> {Undefined, Str("")} \cup {ValidEnv[v] : v \in DOMAIN ValidEnv}] :
        \A v \in DOMAIN e : e[v] \in {Undefined, Str(""), ValidEnv[v]}}

Amounts ==
    {Undefined, Null, Bool(TRUE), Num(0, 0), Str(""),
     Num(500, 0), Num(1005, 1), Num(99995, 3), Num(1005, 3), Num(145, 3), Num(5, 3),
     Num(0 - 5, 0), Num(1, 7),
     Str("500"), Str("0"), Str("100.5"), Str("100.50"), Str("99.995"), Str("1.005"),
     Str("0500"), Str("12abc"), Str("abc"),
     Str("1e3"), Str(" 5"), Str("-5"), Str("0x10"), Str(" "), Str("5"),
     Obj("{}", "[object Object]"), Obj("[5]", "5"), Obj("[]", ""),
     Unconvertible("{\"toString\":1}"), Unconvertible("[{\"toString\":\"x\"}]")}

Bodies ==
    [amount : Amounts,
     productName : {Undefined, Str(""), Str("Book")},
     transactionId : {Undefined, Str("tx1")},
     method : {Undefined, Str(""), Num(1, 0), Str("esewa"), Str("khalti"), Str("Esewa"),
               Str("paypal")}]

\* req.body: a parsed body, or none
RequestBodies == Bodies \cup {Undefined}

\* Date.now() and uuidv4(), as text
TransactionUuids ==
    {transactionUuid("1793318400000", u) :
        u \in {"9b1deb4d-3b7d-4bad-9bdd-2b0d7b3dcb6d", "1b9d6bcd-bbfd-4b2d-9b5d-ab8dfbbd4bed"}}

PaymentUrls == {"https://pay.khalti.com/?pidx=bZQLD9wRVWo4CdESSfuSsB",
                "https://pay.khalti.com/?pidx=S8QJg2VJCsVvGQPnWJmGpN"}

InitiateBody(url) ==
    [t |-> "object", s |-> "{\"payment_url\":" \o JsonString(url) \o "}",
     payment_url |-> Str(url)]

ObjectBody(json) == [t |-> "object", s |-> json, payment_url |-> Undefined]

TextBody(text) == [t |-> "string", s |-> text, payment_url |-> Undefined]

NullBody == [t |-> "null", s |-> "", payment_url |-> Undefined]

HttpReply(status, data) ==
    [status |-> status, data |-> data,
     message |-> IF Resolves([status |-> status]) THEN ""
                 ELSE "Request failed with status code " \o IntToString(status)]

NetworkError == [status |-> 0, data |-> [t |-> "none", s |-> "", payment_url |-> Undefined], message |-> "Network Error"]

Replies ==
    {HttpReply(200, InitiateBody(u)) : u \in PaymentUrls}
        \cup {HttpReply(200, d) :
                d \in {ObjectBody("{}"), TextBody("<html>ok</html>"), TextBody(""), NullBody}}
        \cup {HttpReply(st, d) :
                st \in {401, 500},
                d \in {ObjectBody("{\"detail\":\"Invalid token.\"}"),
                       TextBody("Bad Gateway"), TextBody("upstream said \"no\""),
                       TextBody(""), NullBody}}
        \cup {NetworkError}

---------------------------------------------------------------------------
(* State machine *)

NoRequests ==
    /\ phase = [r \in Requests |-> "idle"]
    /\ body = [r \in Requests |-> <<>>]
    /\ responses = [r \in Requests |-> <<>>]
    /\ awaiting = [r \in Requests |-> 0]
    /\ calls = <<>>

Init == env \in Envs /\ NoRequests

\* POST /api/checkout-session arrives with body b: the handler runs to its
\* response, or to `await axios.post(...)`, where it is suspended.
Handled(r, b, out) ==
    /\ body' = [body EXCEPT ![r] = <<b>>]
    /\ responses' = [responses EXCEPT ![r] = @ \o out.response]
    /\ calls' = calls \o [i \in DOMAIN out.call |->
            [req |-> r, request |-> out.call[i], state |-> "pending", reply |-> <<>>]]
    /\ awaiting' = [awaiting EXCEPT ![r] = IF out.call = <<>> THEN 0 ELSE Len(calls) + 1]
    /\ phase' = [phase EXCEPT ![r] = IF out.call = <<>> THEN "done" ELSE "awaiting"]

Checkout(r, b, uuid) ==
    /\ phase[r] = "idle"
    /\ Handled(r, b, checkoutSession(b, uuid, env))
    /\ UNCHANGED env

\* Khalti answers call c, or the connection fails: the promise settles.
GatewayReply(c, reply) ==
    /\ calls[c].state = "pending"
    /\ calls' = [calls EXCEPT ![c].state = "settled", ![c].reply = <<reply>>]
    /\ UNCHANGED <<env, phase, body, responses, awaiting>>

\* As if the reply were kept in one place shared by all the requests: the
\* reply of the latest call that has one.
latestReply(r) ==
    calls[CHOOSE c \in DOMAIN calls :
            /\ calls[c].state = "settled"
            /\ \A d \in DOMAIN calls : calls[d].state = "settled" => d <= c].reply[1]

\* The reply of the call request r awaits.
awaitedReply(r) == calls[awaiting[r]].reply[1]

\* As if a failed call were tried again: the handler issues the call anew
\* and awaits that one.
ResumeWithRetry(r) ==
    /\ phase[r] = "awaiting"
    /\ calls[awaiting[r]].state = "settled"
    /\ IF Resolves(awaitedReply(r))
       THEN /\ responses' =
                   [responses EXCEPT ![r] = @ \o <<khaltiContinuation(awaitedReply(r))>>]
            /\ phase' = [phase EXCEPT ![r] = "done"]
            /\ UNCHANGED <<awaiting, calls>>
       ELSE /\ calls' = Append(calls, [calls[awaiting[r]] EXCEPT !.state = "pending",
                                                                  !.reply = <<>>])
            /\ awaiting' = [awaiting EXCEPT ![r] = Len(calls) + 1]
            /\ UNCHANGED <<responses, phase>>
    /\ UNCHANGED <<env, body>>

\* The event loop resumes the handler of r after its await settled.
Resume(r) ==
    /\ phase[r] = "awaiting"
    /\ calls[awaiting[r]].state = "settled"
    /\ responses' = [responses EXCEPT ![r] = @ \o <<khaltiContinuation(awaitedReply(r))>>]
    /\ phase' = [phase EXCEPT ![r] = "done"]
    /\ UNCHANGED <<env, body, awaiting, calls>>

\* One client request at a time, over every configuration, body and reply.
Next ==
    \/ \E b \in RequestBodies, uuid \in TransactionUuids : Checkout(1, b, uuid)
    \/ \E c \in DOMAIN calls, reply \in Replies : GatewayReply(c, reply)
    \/ \E r \in Requests : Resume(r)

Spec == Init /\ [][Next]_vars


\* Concurrent requests: any number of them received before the replies to
\* the earlier ones arrive, the replies in any order.
ConcEnvs == {ValidEnv, [ValidEnv EXCEPT !["KHALTI_SECRET_KEY"] = Undefined]}

ConcBodies ==
    [amount : {Num(500, 0)},
     productName : {Str("Book")},
     transactionId : {Str("tx1"), Str("tx2")},
     method : {Str("esewa"), Str("khalti"), Str("paypal")}]

ConcReplies ==
    {HttpReply(200, InitiateBody(u)) : u \in PaymentUrls}
        \cup {HttpReply(500, ObjectBody("{\"detail\":\"Invalid token.\"}")), NetworkError}

ConcInit == env \in ConcEnvs /\ NoRequests

ConcNext ==
    \/ \E r \in Requests, b \in ConcBodies, uuid \in TransactionUuids : Checkout(r, b, uuid)
    \/ \E c \in DOMAIN calls, reply \in ConcReplies : GatewayReply(c, reply)
    \/ \E r \in Requests : Resume(r)

ConcSpec == ConcInit /\ [][ConcNext]_vars

\* The event loop runs every continuation whose promise has settled; nothing
\* makes the gateway reply.
FairConcSpec == ConcSpec /\ \A r \in Requests : WF_vars(Resume(r))


---------------------------------------------------------------------------
(* Vocabulary of the properties, stated on the observable history only: the
   configuration, the request bodies, the outbound calls and the responses. *)

Received(r) == phase[r] # "idle"

Answered(r) == responses[r] # <<>>

BodyOf(r) == body[r][1]

ResponseOf(r) == responses[r][1]

CallsOf(r) == {c \in DOMAIN calls : calls[c].req = r}

Falsy(v) == v \in {Undefined, Null, Bool(FALSE), Zero(FALSE), Zero(TRUE), NaN, Str("")}

\* The request came with a parsed body.
HasBody(r) == BodyOf(r) # Undefined

\* A field is missing or falsy; without a body all four are missing.
SomeFieldFalsy(b) ==
    \/ b = Undefined
    \/ Falsy(b.amount) \/ Falsy(b.productName) \/ Falsy(b.transactionId) \/ Falsy(b.method)

IsSet(v) == v.t = "string" /\ v.s # ""

EnvComplete == \A v \in DOMAIN env : IsSet(env[v])

\* The first variable, in the documented order, that is absent or empty.
FirstMissing ==
    IF ~IsSet(env["BASE_URL"]) THEN "BASE_URL"
    ELSE IF ~IsSet(env["ESEWA_MERCHANT_CODE"]) THEN "ESEWA_MERCHANT_CODE"
    ELSE IF ~IsSet(env["ESEWA_SECRET_KEY"]) THEN "ESEWA_SECRET_KEY"
    ELSE "KHALTI_SECRET_KEY"

IsError(resp, status, error) ==
    /\ resp.status = status
    /\ resp.json.error = <<error>>
    /\ resp.json.amount = <<>> /\ resp.json.esewaConfig = <<>>
    /\ resp.json.khaltiPaymentUrl = <<>>

IsMissingFields400(resp) ==
    IsError(resp, 400, "Missing required fields") /\ resp.json.details = <<>>

IsConfig500(resp) ==
    /\ IsError(resp, 500, "Error creating payment session")
    /\ resp.json.details = <<"Missing environment variable: " \o FirstMissing>>

\* The 500 of a request that brought no body to take the fields from.
IsNoBody500(resp) ==
    /\ IsError(resp, 500, "Error creating payment session")
    /\ resp.json.details =
           <<"Cannot destructure property 'amount' of 'paymentData' as it is undefined.">>

\* C1 as stated: a request with a missing or falsy field is answered 400
\* "Missing required fields" in every configuration state, and calls no gateway.
C1_MissingFieldsIn400AnyConfig ==
    \A r \in Requests :
        Received(r) /\ SomeFieldFalsy(BodyOf(r)) =>
            /\ responses[r] # <<>> /\ IsMissingFields400(ResponseOf(r))
            /\ CallsOf(r) = {}

\* C1 amended: a request with a missing or falsy field calls no gateway and is
\* answered 400 "Missing required fields" when all four required variables
\* are set and the request has a parsed body; the configuration is validated
\* first, so when a variable is absent or empty the answer is the 500 naming
\* the first missing one, and a request without a parsed body is answered
\* 500 by the error boundary.
C1_MissingFields400WhenConfigured ==
    \A r \in Requests :
        Received(r) /\ SomeFieldFalsy(BodyOf(r)) =>
            /\ Len(responses[r]) = 1
            /\ CallsOf(r) = {}
            /\ EnvComplete /\ HasBody(r) => IsMissingFields400(ResponseOf(r))
            /\ EnvComplete /\ ~HasBody(r) => IsNoBody500(ResponseOf(r))
            /\ ~EnvComplete => IsConfig500(ResponseOf(r))

C1_Witness ==
    \E r \in Requests :
        /\ Received(r) /\ EnvComplete /\ HasBody(r)
        /\ BodyOf(r).amount = Num(0, 0) /\ BodyOf(r).method = Str("khalti")
        /\ BodyOf(r).productName = Str("Book") /\ BodyOf(r).transactionId = Str("tx1")
        /\ IsMissingFields400(ResponseOf(r))

\* C2: when a required variable is absent or empty, every checkout request,
\* whatever its body, is answered 500 "Error creating payment session" with
\* details naming the first missing variable, and no outbound call is made.
C2_MissingEnvIs500 ==
    \A r \in Requests :
        Received(r) /\ ~EnvComplete =>
            /\ Len(responses[r]) = 1 /\ IsConfig500(ResponseOf(r))
            /\ CallsOf(r) = {}

C2_Witness ==
    \E r \in Requests :
        /\ Received(r)
        /\ IsSet(env["BASE_URL"]) /\ IsSet(env["ESEWA_MERCHANT_CODE"])
        /\ env["ESEWA_SECRET_KEY"] = Str("") /\ env["KHALTI_SECRET_KEY"] = Undefined
        /\ ~SomeFieldFalsy(BodyOf(r)) /\ BodyOf(r).method = Str("khalti")
        /\ ResponseOf(r).json.details = <<"Missing environment variable: ESEWA_SECRET_KEY">>

\* C3: with valid configuration and four truthy fields, a method other than
\* exactly "esewa" or "khalti" is answered 400 "Invalid payment method", with
\* no details field and no outbound call.
C3_InvalidMethodIs400 ==
    \A r \in Requests :
        /\ Received(r) /\ EnvComplete /\ ~SomeFieldFalsy(BodyOf(r))
        /\ BodyOf(r).method \notin {Str("esewa"), Str("khalti")}
        => /\ Len(responses[r]) = 1
           /\ IsError(ResponseOf(r), 400, "Invalid payment method")
           /\ ResponseOf(r).json.details = <<>>
           /\ CallsOf(r) = {}

C3_Witness ==
    \E r \in Requests :
        /\ Received(r) /\ EnvComplete /\ ~SomeFieldFalsy(BodyOf(r))
        /\ BodyOf(r).method = Str("Esewa")
        /\ ResponseOf(r).status = 400


IsKhaltiRequest(r) ==
    Received(r) /\ EnvComplete /\ ~SomeFieldFalsy(BodyOf(r)) /\ BodyOf(r).method = Str("khalti")

\* The reply request r got to its outbound call, once it has one.
Replied(r) == \E c \in CallsOf(r) : calls[c].state = "settled"

ReplyTo(r) == calls[CHOOSE c \in CallsOf(r) : calls[c].state = "settled"].reply[1]

Is2xx(reply) == reply.status \in 200..299

HasPaymentUrl(data) == data.t = "object" /\ data.payment_url # Undefined

\* C4: a khalti request is answered 200 only when the reply is 2xx and its
\* body has a payment_url; a 2xx reply without one is answered 500.
C4_KhaltiOkOnlyWithPaymentUrl ==
    \A r \in Requests :
        IsKhaltiRequest(r) /\ Answered(r) /\ Replied(r) =>
            /\ ResponseOf(r).status = 200 =>
                   Is2xx(ReplyTo(r)) /\ HasPaymentUrl(ReplyTo(r).data)
            /\ Is2xx(ReplyTo(r)) /\ ~HasPaymentUrl(ReplyTo(r).data) =>
                   ResponseOf(r).status = 500

\* The text a failed call leaves in details: the upstream payload, as JSON,
\* when the gateway sent one, otherwise the message of the error.
UpstreamDetail(reply) ==
    IF reply.status # 0 /\ reply.data.t = "object" THEN reply.data.s
    ELSE IF reply.status # 0 /\ reply.data.t = "string" /\ reply.data.s # ""
    THEN JsonString(reply.data.s)
    ELSE JsonString(reply.message)

\* C5: a call that fails with a non-2xx status or a network error is
\* answered 500 "Error creating payment session", the details embedding the
\* upstream payload if there is one and the error message otherwise.
C5_UpstreamFailureIs500 ==
    \A r \in Requests :
        IsKhaltiRequest(r) /\ phase[r] = "done" /\ Replied(r) /\ ~Is2xx(ReplyTo(r)) =>
            /\ Len(responses[r]) = 1
            /\ IsError(ResponseOf(r), 500, "Error creating payment session")
            /\ ResponseOf(r).json.details =
                   <<"Khalti payment initiation failed: " \o UpstreamDetail(ReplyTo(r))>>

C5_Witness ==
    \E r \in Requests :
        /\ IsKhaltiRequest(r) /\ phase[r] = "done" /\ Replied(r)
        /\ ReplyTo(r).status = 500 /\ ReplyTo(r).data.t = "object"
        /\ ResponseOf(r).json.details =
               <<"Khalti payment initiation failed: {\"detail\":\"Invalid token.\"}">>

\* The amounts C7 speaks of: a non-negative number, or a string that is
\* wholly an unsigned decimal literal, with at most three decimal places.
IsDecimal(v) ==
    \/ v.t = "number" /\ v.s = ""
    \/ v.t = "string" /\ v.s # "" /\ DecimalPrefix(v.s).len = Len(v.s)

DecimalOf(v) == IF v.t = "number" THEN v ELSE StringToNumber(v.s)

DecimalPlaces(v) == IF Len(v.d) > v.p THEN Len(v.d) - v.p ELSE 0

IsEsewaOk(r) ==
    /\ Received(r) /\ EnvComplete /\ ~SomeFieldFalsy(BodyOf(r))
    /\ BodyOf(r).method = Str("esewa")
    /\ Answered(r) /\ ResponseOf(r).status = 200

\* A value of the JSON response body as the client reads it: JSON has no
\* NaN and no infinity, which are serialised as null.
ReturnedText(v) ==
    IF v.t = "string" THEN v.s
    ELSE IF v.t = "number" /\ ~IsFinite(v) THEN "null"
    ELSE ToString(v).s

\* C6: the signature of an eSewa response is the HMAC, under
\* ESEWA_SECRET_KEY, of "total_amount=<T>,transaction_uuid=<U>,product_code=<P>"
\* with T, U, P the values of the same response's esewaConfig, for every
\* truthy amount given as a number or as a string.
C6_SignatureCoversReturnedFields ==
    \A r \in Requests :
        IsEsewaOk(r) /\ BodyOf(r).amount.t \in {"number", "string"} =>
            LET config == ResponseOf(r).json.esewaConfig[1]
            IN  config.signature =
                    [hmac |-> "sha256", key |-> env["ESEWA_SECRET_KEY"].s,
                     message |-> "total_amount=" \o ReturnedText(config.total_amount)
                                 \o ",transaction_uuid=" \o ReturnedText(config.transaction_uuid)
                                 \o ",product_code=" \o ReturnedText(config.product_code),
                     digest |-> "base64"]

\* amount * 100 rounded to the nearest integer, halves upward, in exact
\* decimal arithmetic.
RoundHalfUpTimes100(v) ==
    LET digits == v.d \o Zeros((v.p + 3) - Len(v.d))
        whole == IF v.p + 2 > 0 THEN SubSeq(digits, 1, v.p + 2) ELSE ""
        next == IF v.p + 2 >= 0 THEN DigitVal(SubSeq(digits, v.p + 3, v.p + 3)) ELSE 0
        units == StripLeadingZeros(whole)
        rounded == IF next >= 5 THEN BigToDigits(BigInc(BigFromDigits(units))) ELSE units
    IN  Finite(FALSE, rounded, Len(rounded))

\* C7: the amount of the Khalti payload is round(amount * 100), halves
\* rounded up, for every amount with up to three decimal places.
C7_MinorUnitsRoundHalfUp ==
    \A c \in DOMAIN calls :
        LET amount == BodyOf(calls[c].req).amount
        IN  IsDecimal(amount) /\ DecimalPlaces(DecimalOf(amount)) <= 3 =>
                calls[c].request.data.amount = RoundHalfUpTimes100(DecimalOf(amount))

\* C8 as stated: a request issues exactly one outbound call when it has four
\* truthy fields, method "khalti" and valid configuration, and none
\* otherwise; the count never grows after a failed reply.
C8_OneCallPerKhaltiRequest ==
    \A r \in Requests :
        Cardinality(CallsOf(r)) = IF IsKhaltiRequest(r) THEN 1 ELSE 0

\* The amount can be turned into a string: it is no object, or one whose
\* conversion does not throw.
Convertible(v) == v.t # "object" \/ v.p = 0

IssuesCall(r) == IsKhaltiRequest(r) /\ Convertible(BodyOf(r).amount)

\* C8 amended: a request issues exactly one outbound call when it has four
\* truthy fields, method "khalti", valid configuration and an amount that can
\* be converted to a string, and none otherwise; the count never grows after
\* a failed reply.  A khalti request whose amount cannot be converted is
\* answered 500 by the error boundary without any call.
C8_OneCallPerConvertibleKhaltiRequest ==
    \A r \in Requests :
        /\ Cardinality(CallsOf(r)) = IF IssuesCall(r) THEN 1 ELSE 0
        /\ IsKhaltiRequest(r) /\ ~IssuesCall(r) =>
               /\ Len(responses[r]) = 1
               /\ IsError(ResponseOf(r), 500, "Error creating payment session")
               /\ ResponseOf(r).json.details =
                      <<"Cannot convert object to primitive value">>

C8_Witness ==
    \E r \in Requests :
        /\ IsKhaltiRequest(r) /\ phase[r] = "done" /\ Replied(r)
        /\ ReplyTo(r) = NetworkError
        /\ Cardinality(CallsOf(r)) = 1


\* C9: whatever the interleaving, a request awaits only its own call, that
\* call carries the request's own transactionId and productName, and a
\* khalti 200 response carries the payment_url of the reply to that call.
C9_ResponseFromOwnCall ==
    \A r \in Requests :
        /\ awaiting[r] # 0 => CallsOf(r) = {awaiting[r]}
        /\ \A c \in CallsOf(r) :
               /\ calls[c].request.data.purchase_order_id = BodyOf(r).transactionId
               /\ calls[c].request.data.purchase_order_name = BodyOf(r).productName
        /\ IsKhaltiRequest(r) /\ Answered(r) /\ ResponseOf(r).status = 200 =>
               \E c \in CallsOf(r) :
                   /\ calls[c].state = "settled" /\ Is2xx(calls[c].reply[1])
                   /\ ResponseOf(r).json.khaltiPaymentUrl =
                          <<calls[c].reply[1].data.payment_url>>

\* Two khalti requests, each answered 200, with different payment URLs.
C9_Witness ==
    \E r1, r2 \in Requests :
        /\ r1 # r2 /\ IsKhaltiRequest(r1) /\ IsKhaltiRequest(r2)
        /\ awaiting[r1] < awaiting[r2]
        /\ phase[r1] = "done" /\ phase[r2] = "done"
        /\ ResponseOf(r1).status = 200 /\ ResponseOf(r2).status = 200
        /\ ResponseOf(r1).json.khaltiPaymentUrl # ResponseOf(r2).json.khaltiPaymentUrl

\* What holds of the responses in every state: at most one per request, of
\* status 200, 400 or 500; a handler that returned has answered; a request
\* other than a khalti one with valid input is answered as it is received;
\* and no request is answered while its outbound call is pending.
AnsweredOnceSoFar ==
    \A r \in Requests :
        /\ Len(responses[r]) <= 1
        /\ \A i \in DOMAIN responses[r] : responses[r][i].status \in {200, 400, 500}
        /\ phase[r] = "done" <=> Len(responses[r]) = 1
        /\ Received(r) /\ ~IsKhaltiRequest(r) => Answered(r)
        /\ (\E c \in CallsOf(r) : calls[c].state = "pending") => ~Answered(r)

\* C10: every request is answered exactly once, with 200, 400 or 500; eSewa
\* and rejected requests without waiting; a khalti request once its call has
\* settled, and never while the call is pending.
C10_AnsweredExactlyOnce ==
    /\ []AnsweredOnceSoFar
    /\ \A r \in Requests :
           (phase[r] = "awaiting" /\ calls[awaiting[r]].state = "settled")
               ~> (Len(responses[r]) = 1)

C10_Witness ==
    \E r1, r2 \in Requests :
        /\ IsKhaltiRequest(r1) /\ phase[r1] = "done" /\ Len(responses[r1]) = 1
        /\ IsKhaltiRequest(r2) /\ phase[r2] = "awaiting"
        /\ calls[awaiting[r2]].state = "pending" /\ ~Answered(r2)

============================================================================
